---- MODULE Spec2Model ----
(***************************************************************************)
(* The forum-thread lifecycle tracker (ForumManager, src/forumManager.ts)  *)
(* as a state machine: the chat platform's view of each thread, the        *)
(* schedule store (SQLite table scheduled_closes), the process-local maps  *)
(* and timers, and the handlers, split at the awaits on platform calls.    *)
(* Time is Date.now() in milliseconds.                                     *)
(***************************************************************************)
EXTENDS Integers, FiniteSets, Sequences, TLC

VARIABLES
  now,              \* Date.now(), ms since the epoch
  thread,           \* platform: thread id -> [exists, parent, locked, tags, name]
  SQLITE_DQS,       \* the SQLite build takes the double-quoted "now" as a string literal
  dbOpen,           \* this.db is open: cleanup() has not closed it
  tableExists,      \* forum.db: the table scheduled_closes exists
  store,            \* forum.db: rows [thread_id, scheduled_time] of scheduled_closes
  activeThreads,    \* ForumManager.activeThreads: thread id -> timer handle
  pendingClosures,  \* ForumManager.pendingClosures: thread id -> close time (ms)
  timers,           \* armed setTimeout handles of scheduleThreadClose: [id, thread, due]
  intervals,        \* the daily cleanupDatabase intervals that initialize() calls have set
  tasks,            \* handlers suspended at an await: [id, kind, thread, pc, name, tags, rows]
  inactivityWarnings, \* ForumManager.inactivityWarnings: thread id -> has an entry
  graces,           \* armed auto-solve timers of sendInactivityWarning: [thread, due]
  collectors,       \* button collectors of the warnings sent: [thread, until, collected]
  posts,            \* platform: thread id -> [owner: time of the owner's last message,
                    \*   last: author of the last message that is not a bot's,
                    \*   warning: time of the inactivity warning message in it]
  reply,            \* what the last step sent or threw: [thread, kind, ephemeral]
  handlers,         \* how many handlers the event loop holds suspended at once
  scan,             \* VirusTotalService.scanFile: [length of the downloaded file,
                    \*   pc, urlRequests, uploads sent to VirusTotal]
  text,             \* isThankYouMessage: [content, result]
  poll              \* VirusTotalService.getAnalysisResults: [readyAfter: responses
                    \*   the analysis needs before it is completed, pc, attempt,
                    \*   requests sent, waits begun, ms waited, failed requests, error thrown]

platformVars == <<thread>>
dbVars       == <<SQLITE_DQS, tableExists, store>>
mapVars      == <<activeThreads, pendingClosures>>
warnVars     == <<inactivityWarnings, graces, collectors, posts>>
sideVars     == <<handlers, scan, text, poll>>
vars == <<now, thread, SQLITE_DQS, dbOpen, tableExists, store, activeThreads,
          pendingClosures, timers, intervals, tasks, inactivityWarnings,
          graces, collectors, posts, reply, handlers, scan, text, poll>>

----------------------------------------------------------------------------
(* Bounds of the model.                                                    *)

\* timer handles that can be alive or referenced at once in one process
MaxTimers == 2
\* handlers suspended at an await at once
MaxTasks == 1
\* the clock advances at most this many hours, and this many days, from a start
MaxHourTicks == 2
MaxDayTicks == 2
\* calls of initialize() in one process
MaxInits == 2
\* handlers suspended at once where a command meets a timer callback
MaxRaceTasks == 2
\* activations of one warning's button that get as far as markAsSolved
MaxPresses == 2
\* the clock advances at most this many half days as well, where the
\* inactivity warning and its auto-solve timer are followed
MaxHalfDayTicks == 1
\* downloaded files are within this many bytes of the size limit
MaxBytesOff == 10
\* a tested text is a core with at most this many characters before and after
MaxPad == 1

Threads == {"t1", "t2"}
\* the threads in which members issue commands and edit tags. The other
\* thread takes part through the row an earlier process left for it, the
\* timer re-armed from that row, and its deletion.
Commanded == {"t1"}
Actors  == {"owner", "moderator", "stranger"}
\* the authors of messages in a thread, none of them a bot, and what
\* isThankYouMessage makes of a message's content
Authors  == {"owner", "stranger"}
Contents == {"thanks", "text"}

\* Map.get of a missing key, and no reply sent yet
NoTimer == 0
NoTime  == -1
NoReply == [thread |-> "none", kind |-> "none", ephemeral |-> FALSE]

----------------------------------------------------------------------------
(* Program constants.                                                      *)

FORUM_CHANNEL_ID     == "forum"
SOLVED_TAG_ID        == "solved"
WAITING_REPLY_TAG_ID == "waiting"
AUTO_CLOSE_DELAY     == 60 * 60 * 1000
DAY                  == 24 * 60 * 60 * 1000
INACTIVITY_CHECK_DELAY == 24 * 60 * 60 * 1000
AUTO_SOLVE_DELAY     == 12 * 60 * 60 * 1000
COLLECTOR_TIME       == 24 * 60 * 60 * 1000

\* the channels a thread can be a post of: the configured forum and another
Channels == {FORUM_CHANNEL_ID, "elsewhere"}

\* the instants the bounded clock can show
\* the model starts at 23:00 UTC of day 0, so that both a close time on the
\* same date and one on the next date occur
StartTime == DAY - AUTO_CLOSE_DELAY
ClockValues ==
  { StartTime + h * AUTO_CLOSE_DELAY + g * AUTO_SOLVE_DELAY + d * DAY :
      h \in 0..MaxHourTicks, g \in 0..MaxHalfDayTicks, d \in 0..MaxDayTicks }

----------------------------------------------------------------------------
(* Timestamps as text. A timestamp string is modelled by the fields that   *)
(* decide a bytewise comparison: <<date, separator byte, rest>>.           *)
(* Date.toISOString() gives "YYYY-MM-DDTHH:MM:SS.mmmZ" (separator "T",     *)
(* byte 84); SQLite's datetime() gives "YYYY-MM-DD HH:MM:SS" (separator    *)
(* " ", byte 32).                                                          *)

toISOString(t) == <<t \div DAY, 84, t % DAY>>

DateParse(s) == s[1] * DAY + s[3]

SqlDatetime(t) == <<t \div DAY, 32, (t % DAY) \div 1000>>

\* SQLite's comparison of two TEXT values (BINARY collation), field by field
TextLess(a, b) ==
  \/ a[1] < b[1]
  \/ a[1] = b[1] /\ a[2] < b[2]
  \/ a[1] = b[1] /\ a[2] = b[2] /\ a[3] < b[3]

----------------------------------------------------------------------------
(* The schedule store.                                                     *)

RowsOf(t) == { r \in store : r.thread_id = t }

\* DELETE FROM scheduled_closes WHERE thread_id = ?; INSERT ... VALUES (?, ?)
\* inside BEGIN/COMMIT. With the table missing the first prepare throws, the
\* catch rolls back and the function returns normally.
StoreAfterScheduledClose(t, scheduledTime) ==
  IF tableExists /\ dbOpen
    THEN (store \ RowsOf(t)) \cup
           { [thread_id |-> t, scheduled_time |-> toISOString(scheduledTime)] }
    ELSE store

\* DELETE FROM scheduled_closes WHERE thread_id = ?; a missing table or a
\* closed connection throws and the catch logs
StoreAfterDelete(t) ==
  IF tableExists /\ dbOpen THEN store \ RowsOf(t) ELSE store

\* DELETE FROM scheduled_closes WHERE scheduled_time < datetime("now", "-1 day").
\* "now" and "-1 day" are in double quotes: a build of SQLite with the option
\* SQLITE_DQS=0 (the default of better-sqlite3's bundled SQLite) reads them
\* as column names, prepare throws and the catch logs.
StoreAfterCleanup ==
  IF SQLITE_DQS /\ dbOpen
    THEN { r \in store : ~ TextLess(r.scheduled_time, SqlDatetime(now - DAY)) }
    ELSE store

\* SELECT * FROM scheduled_closes WHERE scheduled_time > datetime("now"),
\* on the rows that cleanupDatabase left; prepare throws as above and
\* restoreScheduledCloses returns through its catch
FutureRows(rows) ==
  IF SQLITE_DQS /\ dbOpen
    THEN { r \in rows : TextLess(SqlDatetime(now), r.scheduled_time) }
    ELSE {}


----------------------------------------------------------------------------
(* The platform, timers and suspended handlers.                            *)

\* a platform call on a thread: it fails when the thread was deleted, and
\* may fail (network, rate limit) otherwise
Outcomes(t) == IF thread[t].exists THEN BOOLEAN ELSE {FALSE}

\* a handler that lets every actor through
AuthorizedAnyone(actor) == actor \in Actors

\* interaction.member.roles.cache.has(<moderator role>) or the thread owner
Authorized(actor) == actor = "owner" \/ actor = "moderator"

\* thread.name.replace(/\[unsolved\]/i, '[solved]')
SolvedName(name) == IF name = "[unsolved]" THEN "[solved]" ELSE name

\* thread.name.replace(/\[solved\]/i, '[unsolved]')
UnsolvedName(name) == IF name = "[solved]" THEN "[unsolved]" ELSE name

\* handles that no armed timer and no map entry holds
FreeTimerIds ==
  (1..MaxTimers) \ ({ tm.id : tm \in timers } \cup
                    { activeThreads[t] : t \in Threads })

NewTimerId == CHOOSE i \in FreeTimerIds : \A j \in FreeTimerIds : i <= j

FreeTaskIds == (1..handlers) \ { k.id : k \in tasks }

\* a handler reaches its first await; name and tags are the arguments of the
\* setName / setAppliedTags call it is suspended on
NewTask(kind, t, pc, name, rows) ==
  [id   |-> CHOOSE i \in FreeTaskIds : \A j \in FreeTaskIds : i <= j,
   kind |-> kind, thread |-> t, pc |-> pc, name |-> name, tags |-> {},
   rows |-> rows]

\* the handler moves on to its next await
Resume(k, pc, tags) ==
  (tasks \ {k}) \cup {[k EXCEPT !.pc = pc, !.name = "", !.tags = tags]}

\* interaction.reply({content or embeds, ephemeral})
Say(t, kind, ephemeral) ==
  reply' = [thread |-> t, kind |-> kind, ephemeral |-> ephemeral]

\* the step sends no interaction reply
Silent == reply' = NoReply

\* a scheduler without the guard on the delay: an overdue time arms a timer
\* that is due at once
scheduleThreadCloseAnyDelay(t, scheduledTime) ==
  /\ FreeTimerIds # {}
  /\ timers' = timers \cup
       {[id |-> NewTimerId, thread |-> t, due |-> scheduledTime]}
  /\ activeThreads' = [activeThreads EXCEPT ![t] = NewTimerId]

\* scheduleThreadClose(thread, scheduledTime): setTimeout(callback, delay)
\* and activeThreads.set(thread.id, timer), unless the delay is not positive
scheduleThreadClose(t, scheduledTime) ==
  LET delay == scheduledTime - now IN
  IF delay <= 0
    THEN UNCHANGED <<timers, activeThreads>>
    ELSE /\ FreeTimerIds # {}
         /\ timers' = timers \cup
              {[id |-> NewTimerId, thread |-> t, due |-> now + delay]}
         /\ activeThreads' = [activeThreads EXCEPT ![t] = NewTimerId]

\* clearTimeout(timer): a fired or cleared handle is left alone
clearTimeout(id) == { tm \in timers : tm.id # id }

----------------------------------------------------------------------------
\* what an earlier process left in forum.db: a thread not in Commanded was
\* marked solved at StartTime
LeftRows ==
  { [thread_id |-> t, scheduled_time |-> toISOString(StartTime + AUTO_CLOSE_DELAY)] :
      t \in Threads \ Commanded }

\* A ForumManager is constructed, on a new forum.db or on the one an earlier
\* process left.
ManagerInit ==
  /\ now = StartTime
  /\ SQLITE_DQS \in BOOLEAN
  /\ tableExists \in BOOLEAN
  /\ dbOpen = TRUE
  /\ store = IF tableExists THEN LeftRows ELSE {}
  /\ \E parent \in Channels :
       thread = [t \in Threads |->
         IF t \in Commanded
           THEN [exists |-> TRUE, parent |-> parent, locked |-> FALSE,
                 tags |-> {WAITING_REPLY_TAG_ID}, name |-> "[unsolved]"]
           ELSE IF ~ tableExists
             THEN [exists |-> TRUE, parent |-> FORUM_CHANNEL_ID,
                   locked |-> FALSE,
                   tags |-> {WAITING_REPLY_TAG_ID}, name |-> "[unsolved]"]
             ELSE [exists |-> TRUE, parent |-> FORUM_CHANNEL_ID,
                   locked |-> FALSE, tags |-> {}, name |-> "[solved]"]]
  /\ activeThreads = [t \in Threads |-> NoTimer]
  /\ pendingClosures = [t \in Threads |-> NoTime]
  /\ timers = {}
  /\ intervals = 0
  /\ tasks = {}
  /\ inactivityWarnings = [t \in Threads |-> FALSE]
  /\ graces = {}
  /\ collectors = {}
  /\ posts = [t \in Threads |->
                [owner |-> StartTime, last |-> "owner", warning |-> NoTime]]
  /\ reply = NoReply

\* no file is being scanned and no message text is being tested
NoScan == [length |-> 0, pc |-> "idle", urlRequests |-> 0, uploads |-> 0]
NoText == [content |-> <<>>, result |-> "untested"]
NoPoll == [readyAfter |-> 0, pc |-> "idle", attempt |-> 0, requests |-> 0,
           waits |-> 0, waited |-> 0, failed |-> 0, error |-> ""]

Init ==
  /\ ManagerInit
  /\ handlers = MaxTasks
  /\ scan = NoScan
  /\ text = NoText
  /\ poll = NoPoll

----------------------------------------------------------------------------
(* The clock. A timer that is due runs before time moves on.               *)

Tick(d) ==
  /\ now + d \in ClockValues
  /\ \A tm \in timers \cup graces : now + d <= tm.due
  /\ now' = now + d
  /\ Silent
  /\ UNCHANGED <<thread, SQLITE_DQS, sideVars, warnVars, tableExists, dbOpen, store, activeThreads,
                 pendingClosures, timers, intervals, tasks>>

\* a user or moderator deletes the thread on the platform
DeleteThread(t) ==
  /\ thread[t].exists
  /\ thread' = [thread EXCEPT ![t].exists = FALSE]
  /\ Silent
  /\ UNCHANGED <<now, SQLITE_DQS, sideVars, warnVars, tableExists, dbOpen, store, activeThreads,
                 pendingClosures, timers, intervals, tasks>>

\* a member edits the post's tags on the platform and applies the solved tag
MemberTagsSolved(t) ==
  /\ thread[t].exists
  /\ SOLVED_TAG_ID \notin thread[t].tags
  /\ thread' = [thread EXCEPT ![t].tags = @ \cup {SOLVED_TAG_ID}]
  /\ Silent
  /\ UNCHANGED <<now, SQLITE_DQS, sideVars, warnVars, tableExists, dbOpen, store, activeThreads, pendingClosures,
                 timers, intervals, tasks>>

\* the process ends and a new one constructs a ForumManager: the static maps,
\* the timers and the suspended handlers are gone, forum.db stays
Restart ==
  /\ activeThreads' = [t \in Threads |-> NoTimer]
  /\ pendingClosures' = [t \in Threads |-> NoTime]
  /\ timers' = {}
  /\ intervals' = 0
  /\ tasks' = {}
  /\ inactivityWarnings' = [t \in Threads |-> FALSE]
  /\ graces' = {}
  /\ collectors' = {}
  /\ dbOpen' = TRUE
  /\ Silent
  /\ UNCHANGED <<now, thread, SQLITE_DQS, sideVars, posts, tableExists, store>>

----------------------------------------------------------------------------
(* The Solved transition: markAsSolved and handleSolvedCommand.            *)

TasksOf(kind) == { k \in tasks : k.kind = kind }

\* handleSolvedCommand after markAsSolved returned, with or without a caught
\* error: pendingClosures.set and the public 'Post Marked as Solved' reply.
\* The handler changes nothing after sending it. The auto-solve timer
\* callback continues the same way and announces the automatic solve.
SolvedCommandEnds(k) ==
  /\ pendingClosures' =
       [pendingClosures EXCEPT ![k.thread] = now + AUTO_CLOSE_DELAY]
  /\ tasks' = tasks \ {k}
  /\ Say(k.thread, IF k.kind = "grace" THEN "autosolved" ELSE "confirmed",
         FALSE)

\* a call inside markAsSolved threw: its catch logs and returns to
\* the caller
MarkFailed(k) ==
  /\ SolvedCommandEnds(k)
  /\ UNCHANGED <<store, timers, activeThreads>>

\* markAsSolved from the store write on, then its caller's continuation: no
\* platform call is awaited between them. On a closed connection
\* storeScheduledClose throws at BEGIN and again at ROLLBACK in its catch,
\* so the error reaches the catch of markAsSolved.
StoreAndSchedule(k) ==
  LET scheduledTime == now + AUTO_CLOSE_DELAY IN
  IF dbOpen
    THEN /\ store' = StoreAfterScheduledClose(k.thread, scheduledTime)
         /\ scheduleThreadClose(k.thread, scheduledTime)
         /\ SolvedCommandEnds(k)
    ELSE MarkFailed(k)

\* /solved in a thread, up to the first await
HandleSolvedCommand(t, actor) ==
  /\ thread[t].exists
  /\ IF thread[t].parent # FORUM_CHANNEL_ID
       THEN Say(t, "notForum", TRUE) /\ UNCHANGED tasks
       ELSE IF pendingClosures[t] # NoTime
         THEN Say(t, "already", TRUE) /\ UNCHANGED tasks
         ELSE IF ~ Authorized(actor)
           THEN Say(t, "rejected", TRUE) /\ UNCHANGED tasks
           ELSE /\ FreeTaskIds # {}
                /\ tasks' = tasks \cup
                     {NewTask("solved", t, "setName",
                              SolvedName(thread[t].name), {})}
                /\ Silent
  /\ UNCHANGED <<now, thread, SQLITE_DQS, sideVars, warnVars, tableExists, dbOpen, store, activeThreads,
                 pendingClosures, timers, intervals>>

\* thread.setName(newName) returns
MarkSetNameReturns(k, ok) ==
  /\ k.pc = "setName"
  /\ IF ok
       THEN /\ thread' = [thread EXCEPT ![k.thread].name = k.name]
            /\ tasks' = Resume(k, "status", {})
            /\ Silent
            /\ UNCHANGED <<store, timers, activeThreads, pendingClosures>>
       ELSE MarkFailed(k) /\ UNCHANGED thread
  /\ UNCHANGED <<now, SQLITE_DQS, sideVars, warnVars, tableExists, dbOpen, intervals>>

\* findSolvedMessage and solvedMessage.edit return; updateWaitingReplyTag(thread,
\* false) then removes the waiting-for-reply tag if the thread has it
MarkStatusReturns(k, ok) ==
  /\ k.pc = "status"
  /\ IF ~ ok
       THEN MarkFailed(k)
       ELSE IF WAITING_REPLY_TAG_ID \in thread[k.thread].tags
         THEN /\ tasks' = Resume(k, "setTags",
                             thread[k.thread].tags \ {WAITING_REPLY_TAG_ID})
              /\ Silent
              /\ UNCHANGED <<store, timers, activeThreads, pendingClosures>>
         ELSE StoreAndSchedule(k)
  /\ UNCHANGED <<now, thread, SQLITE_DQS, sideVars, warnVars, tableExists, dbOpen, intervals>>

\* thread.setAppliedTags(newTags) of updateWaitingReplyTag returns
MarkSetTagsReturns(k, ok) ==
  /\ k.pc = "setTags"
  /\ IF ok
       THEN /\ thread' = [thread EXCEPT ![k.thread].tags = k.tags]
            /\ StoreAndSchedule(k)
       ELSE MarkFailed(k) /\ UNCHANGED thread
  /\ UNCHANGED <<now, SQLITE_DQS, sideVars, warnVars, tableExists, dbOpen, intervals>>


----------------------------------------------------------------------------
(* The scheduled-lock timer callback of scheduleThreadClose.               *)

\* a callback end that forgets pendingClosures
DeleteFromActiveThreadsOnly(t) ==
  /\ activeThreads' = [activeThreads EXCEPT ![t] = NoTimer]
  /\ UNCHANGED pendingClosures

DeleteFromMaps(t) ==
  /\ activeThreads' = [activeThreads EXCEPT ![t] = NoTimer]
  /\ pendingClosures' = [pendingClosures EXCEPT ![t] = NoTime]

\* the timer expires and its callback runs up to await thread.fetch()
TimerFires(tm) ==
  /\ now >= tm.due
  /\ FreeTaskIds # {}
  /\ timers' = timers \ {tm}
  /\ tasks' = tasks \cup {NewTask("lock", tm.thread, "fetch", "", {})}
  /\ Silent
  /\ UNCHANGED <<now, thread, SQLITE_DQS, sideVars, warnVars, tableExists, dbOpen, store, activeThreads,
                 pendingClosures, intervals>>

\* thread.fetch() returns: a deleted thread is logged and the maps cleaned
LockFetchReturns(k, ok) ==
  /\ k.pc = "fetch"
  /\ IF ok
       THEN tasks' = Resume(k, "setLocked", {}) /\ UNCHANGED mapVars
       ELSE tasks' = tasks \ {k} /\ DeleteFromMaps(k.thread)
  /\ Silent
  /\ UNCHANGED <<now, thread, SQLITE_DQS, sideVars, warnVars, tableExists, dbOpen, store, timers, intervals>>

\* a callback that goes on to the closure notice without locking the thread
LockSetLockedSkipped(k, ok) ==
  /\ k.pc = "setLocked"
  /\ tasks' = Resume(k, "status", {})
  /\ Silent
  /\ UNCHANGED <<now, thread, mapVars, SQLITE_DQS, sideVars, warnVars,
                 tableExists, dbOpen, store, timers, intervals>>

\* thread.setLocked(true) returns
LockSetLockedReturns(k, ok) ==
  /\ k.pc = "setLocked"
  /\ IF ok
       THEN /\ thread' = [thread EXCEPT ![k.thread].locked = TRUE]
            /\ tasks' = Resume(k, "status", {})
            /\ UNCHANGED mapVars
       ELSE /\ tasks' = tasks \ {k}
            /\ DeleteFromMaps(k.thread)
            /\ UNCHANGED thread
  /\ Silent
  /\ UNCHANGED <<now, SQLITE_DQS, sideVars, warnVars, tableExists, dbOpen, store, timers, intervals>>

\* findSolvedMessage and the edit (or send) of the closure notice return, or
\* throw: the maps are cleaned either way
LockStatusReturns(k, ok) ==
  /\ k.pc = "status"
  /\ ok \in BOOLEAN
  /\ tasks' = tasks \ {k}
  /\ DeleteFromMaps(k.thread)
  /\ Silent
  /\ UNCHANGED <<now, thread, SQLITE_DQS, sideVars, warnVars, tableExists, dbOpen, store, timers, intervals>>

----------------------------------------------------------------------------
(* handleUnsolvedCommand.                                                  *)

\* /unsolved that does not look at thread.locked
HandleUnsolvedIgnoringLock(t, actor) ==
  /\ thread[t].exists
  /\ FreeTaskIds # {}
  /\ IF activeThreads[t] # NoTimer
       THEN /\ timers' = clearTimeout(activeThreads[t])
            /\ DeleteFromMaps(t)
       ELSE UNCHANGED <<timers, activeThreads, pendingClosures>>
  /\ store' = StoreAfterDelete(t)
  /\ tasks' = tasks \cup
       {NewTask("unsolved", t, "setName", UnsolvedName(thread[t].name), {})}
  /\ Silent
  /\ UNCHANGED <<now, thread, SQLITE_DQS, sideVars, warnVars, tableExists, dbOpen, intervals>>

\* /unsolved in a thread, up to the first await: on a locked thread the
\* lookup of who closed it; otherwise the timer, the maps and the row
HandleUnsolvedCommand(t, actor) ==
  /\ thread[t].exists
  /\ actor \in Actors
  /\ IF thread[t].locked
       THEN /\ Say(t, "closed", TRUE)
            /\ UNCHANGED <<store, timers, activeThreads, pendingClosures, tasks>>
       ELSE /\ FreeTaskIds # {}
            /\ IF activeThreads[t] # NoTimer
                 THEN /\ timers' = clearTimeout(activeThreads[t])
                      /\ DeleteFromMaps(t)
                 ELSE UNCHANGED <<timers, activeThreads, pendingClosures>>
            /\ store' = StoreAfterDelete(t)
            /\ tasks' = tasks \cup
                 {NewTask("unsolved", t, "setName",
                          UnsolvedName(thread[t].name), {})}
            /\ Silent
  /\ UNCHANGED <<now, thread, SQLITE_DQS, sideVars, warnVars, tableExists, dbOpen, intervals>>

\* the reversal is done: the 'Post marked as unsolved' reply. The handler
\* changes nothing after sending it.
UnsolvedConfirmed(k) ==
  /\ tasks' = tasks \ {k}
  /\ Say(k.thread, "unsolved", TRUE)

\* the outer catch: the error reply
UnsolvedFailed(k) ==
  /\ tasks' = tasks \ {k}
  /\ Say(k.thread, "error", TRUE)

\* thread.setName(newName) returns
UnsolvedSetNameReturns(k, ok) ==
  /\ k.pc = "setName"
  /\ IF ok
       THEN /\ thread' = [thread EXCEPT ![k.thread].name = k.name]
            /\ tasks' = Resume(k, "status", {})
            /\ Silent
       ELSE UnsolvedFailed(k) /\ UNCHANGED thread
  /\ UNCHANGED <<now, SQLITE_DQS, sideVars, warnVars, tableExists, dbOpen, store, activeThreads, pendingClosures,
                 timers, intervals>>

\* findSolvedMessage and solvedMessage.edit return; the solved tag is removed
\* if the thread has it
UnsolvedStatusReturns(k, ok) ==
  /\ k.pc = "status"
  /\ IF ~ ok
       THEN UnsolvedFailed(k)
       ELSE IF SOLVED_TAG_ID \in thread[k.thread].tags
         THEN /\ tasks' = Resume(k, "setTags",
                             thread[k.thread].tags \ {SOLVED_TAG_ID})
              /\ Silent
         ELSE UnsolvedConfirmed(k)
  /\ UNCHANGED <<now, thread, SQLITE_DQS, sideVars, warnVars, tableExists, dbOpen, store, activeThreads,
                 pendingClosures, timers, intervals>>

\* thread.setAppliedTags(newTags) returns
UnsolvedSetTagsReturns(k, ok) ==
  /\ k.pc = "setTags"
  /\ IF ok
       THEN /\ thread' = [thread EXCEPT ![k.thread].tags = k.tags]
            /\ UnsolvedConfirmed(k)
       ELSE UnsolvedFailed(k) /\ UNCHANGED thread
  /\ UNCHANGED <<now, SQLITE_DQS, sideVars, warnVars, tableExists, dbOpen, store, activeThreads, pendingClosures,
                 timers, intervals>>

----------------------------------------------------------------------------
(* initialize(): initializeDatabase, cleanupDatabase, restoreScheduledCloses *)
(* and the daily cleanup interval.                                          *)

\* restoreScheduledCloses returned (or caught): setInterval(cleanupDatabase, 1 day)
InitFinish(k) ==
  /\ tasks' = tasks \ {k}
  /\ intervals' = intervals + 1

\* initialize() up to the first await channels.fetch of the restore loop.
\* On a closed connection initializeDatabase throws at BEGIN and again in
\* its catch, and initialize() returns through its own catch with nothing
\* changed.
Initialize ==
  LET cleaned == StoreAfterCleanup
      rows    == FutureRows(cleaned) IN
  /\ intervals + Cardinality(TasksOf("init")) < MaxInits
  /\ dbOpen
  /\ tableExists' = TRUE
  /\ store' = cleaned
  /\ UNCHANGED <<SQLITE_DQS, sideVars, dbOpen, warnVars>>
  /\ IF rows = {}
       THEN intervals' = intervals + 1 /\ UNCHANGED tasks
       ELSE /\ FreeTaskIds # {}
            /\ tasks' = tasks \cup {NewTask("init", "none", "restore", "", rows)}
            /\ UNCHANGED intervals
  /\ Silent
  /\ UNCHANGED <<now, thread, activeThreads, pendingClosures, timers>>

\* channels.fetch(row.thread_id) returns for one selected row: the thread is
\* re-armed if it is not locked; a throw leaves the loop through the catch
InitRestoreRow(k, r, ok) ==
  /\ k.pc = "restore"
  /\ IF ok
       THEN /\ IF ~ thread[r.thread_id].locked
                 THEN scheduleThreadClose(r.thread_id, DateParse(r.scheduled_time))
                 ELSE UNCHANGED <<timers, activeThreads>>
            /\ IF k.rows = {r}
                 THEN InitFinish(k)
                 ELSE /\ tasks' = (tasks \ {k}) \cup {[k EXCEPT !.rows = @ \ {r}]}
                      /\ UNCHANGED intervals
       ELSE InitFinish(k) /\ UNCHANGED <<timers, activeThreads>>
  /\ Silent
  /\ UNCHANGED <<now, thread, SQLITE_DQS, sideVars, warnVars, tableExists, dbOpen, store, pendingClosures>>

\* an interval of initialize() runs cleanupDatabase. The model keeps how many
\* intervals are set, not their phase: a run may come at any instant.
PeriodicCleanup ==
  /\ intervals > 0
  /\ store' = StoreAfterCleanup
  /\ Silent
  /\ UNCHANGED <<now, thread, SQLITE_DQS, sideVars, warnVars, tableExists, dbOpen, activeThreads, pendingClosures,
                 timers, intervals, tasks>>

----------------------------------------------------------------------------
(* Messages, the inactivity sweep, the warning and its auto-solve timer.    *)
(* A thread holds fewer messages than the fetch limit of the sweep, so the  *)
(* sweep sees all of them.                                                  *)

\* the handler's promise rejects and nothing catches it
Throws(t) == Say(t, "unhandledRejection", FALSE)

\* a tag rule that never removes the waiting-for-reply tag
updateWaitingReplyTagAddOnly(currentTags, isOP) ==
  IF isOP /\ SOLVED_TAG_ID \notin currentTags
    THEN currentTags \cup {WAITING_REPLY_TAG_ID}
    ELSE currentTags

\* updateWaitingReplyTag: the tags the thread is to have, which are passed to
\* setAppliedTags when they differ from currentTags
updateWaitingReplyTag(currentTags, isOP) ==
  LET isSolved == SOLVED_TAG_ID \in currentTags IN
  IF isOP /\ ~ isSolved
    THEN currentTags \cup {WAITING_REPLY_TAG_ID}
    ELSE currentTags \ {WAITING_REPLY_TAG_ID}

MessageKind(author) ==
  IF author = "owner" THEN "ownerMessage" ELSE "strangerMessage"

MessageTasks == TasksOf("ownerMessage") \cup TasksOf("strangerMessage")

\* the MessageCreate listener after updateWaitingReplyTag returned: an owner
\* message deletes the warning flag and, when it thanks and the thread has
\* no solved tag, is answered with the command suggestion
MessageAfterTag(t, isOP, content, tags) ==
  /\ inactivityWarnings' =
       IF isOP THEN [inactivityWarnings EXCEPT ![t] = FALSE]
               ELSE inactivityWarnings
  /\ IF isOP /\ content = "thanks" /\ SOLVED_TAG_ID \notin tags
       THEN \E sent \in Outcomes(t) :
              IF sent THEN Say(t, "suggestion", FALSE) ELSE Throws(t)
       ELSE Silent

\* a member posts a message in an unlocked thread: the MessageCreate listener
\* up to its first await
MessageCreate(t, author, content) ==
  LET newTags == updateWaitingReplyTag(thread[t].tags, author = "owner") IN
  /\ thread[t].exists
  /\ ~ thread[t].locked
  /\ posts' = [posts EXCEPT ![t].last = author,
                            ![t].owner = IF author = "owner" THEN now ELSE @]
  /\ IF thread[t].parent # FORUM_CHANNEL_ID
       THEN Silent /\ UNCHANGED <<tasks, inactivityWarnings>>
       ELSE IF newTags # thread[t].tags
         THEN /\ FreeTaskIds # {}
              /\ tasks' = tasks \cup
                   {[NewTask(MessageKind(author), t, "setTags", content, {})
                       EXCEPT !.tags = newTags]}
              /\ Silent
              /\ UNCHANGED inactivityWarnings
         ELSE /\ MessageAfterTag(t, author = "owner", content, thread[t].tags)
              /\ UNCHANGED tasks
  /\ UNCHANGED <<now, thread, SQLITE_DQS, sideVars, tableExists, dbOpen, store, activeThreads,
                 pendingClosures, timers, intervals, graces, collectors>>

\* thread.setAppliedTags(newTags) of the listener's updateWaitingReplyTag
\* returns; nothing catches its failure
MessageSetTagsReturns(k, ok) ==
  /\ k.pc = "setTags"
  /\ tasks' = tasks \ {k}
  /\ IF ok
       THEN /\ thread' = [thread EXCEPT ![k.thread].tags = k.tags]
            /\ MessageAfterTag(k.thread, k.kind = "ownerMessage", k.name,
                               k.tags)
       ELSE /\ Throws(k.thread)
            /\ UNCHANGED <<thread, inactivityWarnings>>
  /\ UNCHANGED <<now, SQLITE_DQS, sideVars, tableExists, dbOpen, store, activeThreads,
                 pendingClosures, timers, intervals, graces, collectors, posts>>

\* the setInterval callback of checkInactiveThreads, every 24 hours after
\* the construction at StartTime, up to its first await. Of the threads it
\* visits, only one in Commanded can have a last message not by its owner.
SweepTick(t) ==
  /\ now > StartTime
  /\ (now - StartTime) % INACTIVITY_CHECK_DELAY = 0
  /\ FreeTaskIds # {}
  /\ tasks' = tasks \cup {NewTask("sweep", t, "fetchActive", "", {})}
  /\ Silent
  /\ UNCHANGED <<now, thread, SQLITE_DQS, sideVars, warnVars, tableExists, dbOpen, store,
                 activeThreads, pendingClosures, timers, intervals>>

\* nothing catches a failure inside the sweep
SweepEnds(k, thrown) ==
  /\ tasks' = tasks \ {k}
  /\ IF thrown THEN Throws(k.thread) ELSE Silent

\* a sweep that does not skip threads pending closure
SweepVisitsPending(t) ==
  /\ thread[t].exists
  /\ thread[t].parent = FORUM_CHANNEL_ID
  /\ ~ thread[t].locked
  /\ ~ inactivityWarnings[t]
  /\ SOLVED_TAG_ID \notin thread[t].tags

\* the active threads of the forum that the sweep does not skip
SweepVisits(t) ==
  /\ thread[t].exists
  /\ thread[t].parent = FORUM_CHANNEL_ID
  /\ ~ thread[t].locked
  /\ ~ inactivityWarnings[t]
  /\ SOLVED_TAG_ID \notin thread[t].tags
  /\ pendingClosures[t] = NoTime

\* channels.fetch and threads.fetchActive return; the sweep skips a thread
\* that is gone or not of the forum, locked, warned, tagged solved or
\* pending closure
SweepFetchActiveReturns(k, ok) ==
  LET t == k.thread IN
  /\ k.pc = "fetchActive"
  /\ IF ~ ok
       THEN SweepEnds(k, TRUE)
       ELSE IF SweepVisits(t)
         THEN tasks' = Resume(k, "messages", {}) /\ Silent
         ELSE SweepEnds(k, FALSE)
  /\ UNCHANGED <<now, thread, SQLITE_DQS, sideVars, warnVars, tableExists, dbOpen, store,
                 activeThreads, pendingClosures, timers, intervals>>

\* thread.messages.fetch({limit: 10}) returns: a warning is due when the
\* last message that is not a bot's is not the owner's, the owner's last
\* message is at least INACTIVITY_CHECK_DELAY old and no warning message is
\* among them
SweepMessagesReturn(k, ok) ==
  LET t == k.thread IN
  /\ k.pc = "messages"
  /\ IF ~ ok
       THEN SweepEnds(k, TRUE)
       ELSE IF /\ posts[t].last # "owner"
               /\ now - posts[t].owner >= INACTIVITY_CHECK_DELAY
               /\ posts[t].warning = NoTime
         THEN tasks' = Resume(k, "send", {}) /\ Silent
         ELSE SweepEnds(k, FALSE)
  /\ UNCHANGED <<now, thread, SQLITE_DQS, sideVars, warnVars, tableExists, dbOpen, store,
                 activeThreads, pendingClosures, timers, intervals>>

\* thread.send of sendInactivityWarning returns: the auto-solve timer is
\* armed for 12 hours later, then the sweep sets the warning flag
SweepSendReturns(k, ok) ==
  LET t == k.thread IN
  /\ k.pc = "send"
  /\ tasks' = tasks \ {k}
  /\ IF ok
       THEN /\ posts' = [posts EXCEPT ![t].warning = now]
            /\ graces' = graces \cup
                 {[thread |-> t, due |-> now + AUTO_SOLVE_DELAY]}
            /\ collectors' = collectors \cup
                 {[thread |-> t, until |-> now + COLLECTOR_TIME,
                   collected |-> 0]}
            /\ inactivityWarnings' = [inactivityWarnings EXCEPT ![t] = TRUE]
            /\ Say(t, "warning", FALSE)
       ELSE /\ Throws(t)
            /\ UNCHANGED warnVars
  /\ UNCHANGED <<now, thread, SQLITE_DQS, sideVars, tableExists, dbOpen, store, activeThreads,
                 pendingClosures, timers, intervals>>

\* the 'collect' handler of a warning's button, up to its first await. The
\* collector takes activations for COLLECTOR_TIME after the warning and has
\* no limit on their number.
ButtonPressed(c, actor) ==
  LET t == c.thread IN
  /\ c \in collectors
  /\ now < c.until
  /\ thread[t].exists
  /\ IF pendingClosures[t] # NoTime
       THEN Say(t, "already", TRUE) /\ UNCHANGED <<tasks, collectors>>
       ELSE IF ~ Authorized(actor)
         THEN Say(t, "rejected", TRUE) /\ UNCHANGED <<tasks, collectors>>
         ELSE /\ FreeTaskIds # {}
              /\ c.collected < MaxPresses
              /\ tasks' = tasks \cup
                   {NewTask("button", t, "setName",
                            SolvedName(thread[t].name), {})}
              /\ collectors' = (collectors \ {c}) \cup
                   {[c EXCEPT !.collected = @ + 1]}
              /\ Silent
  /\ UNCHANGED <<now, thread, SQLITE_DQS, sideVars, inactivityWarnings, graces,
                 posts, tableExists, dbOpen, store, activeThreads,
                 pendingClosures, timers, intervals>>

\* the auto-solve timer of a warning fires; no code path clears this timer
GraceFires(g) ==
  /\ now >= g.due
  /\ FreeTaskIds # {}
  /\ graces' = graces \ {g}
  /\ tasks' = tasks \cup {NewTask("grace", g.thread, "fetch", "", {})}
  /\ Silent
  /\ UNCHANGED <<now, thread, SQLITE_DQS, sideVars, inactivityWarnings, posts,
                 collectors, tableExists, dbOpen, store, activeThreads, pendingClosures, timers,
                 intervals>>

\* thread.fetch() of the auto-solve callback returns: markAsSolved starts
\* unless the thread is locked or tagged solved; the callback's catch logs a
\* failure
GraceFetchReturns(k, ok) ==
  LET t == k.thread IN
  /\ k.pc = "fetch"
  /\ IF ok /\ ~ thread[t].locked /\ SOLVED_TAG_ID \notin thread[t].tags
       THEN tasks' = (tasks \ {k}) \cup
              {[k EXCEPT !.pc = "setName",
                         !.name = SolvedName(thread[t].name)]}
       ELSE tasks' = tasks \ {k}
  /\ Silent
  /\ UNCHANGED <<now, thread, SQLITE_DQS, sideVars, warnVars, tableExists, dbOpen, store,
                 activeThreads, pendingClosures, timers, intervals>>

----------------------------------------------------------------------------
(* Shutdown: cleanup(), the handler of SIGINT and SIGTERM. The process     *)
(* goes on running after it.                                               *)

\* closeTime && closeTime - Date.now() <= 10000
Imminent(t) ==
  pendingClosures[t] # NoTime /\ pendingClosures[t] - now <= 10000

\* the entries of activeThreads whose timer cleanup() clears, and those of
\* them it stores again: timeLeft = closeTime ? closeTime - Date.now() : 0
Cleared   == { t \in Threads : activeThreads[t] # NoTimer /\ ~ Imminent(t) }
Persisted == { t \in Cleared : pendingClosures[t] # NoTime
                                 /\ pendingClosures[t] - now > 0 }

\* storeScheduledClose(threadId, new Date(Date.now() + timeLeft)) for each
\* thread of Persisted
StoreAfterShutdown ==
  IF tableExists /\ dbOpen
    THEN { r \in store : r.thread_id \notin Persisted } \cup
           { [thread_id |-> t,
              scheduled_time |-> toISOString(pendingClosures[t])] :
               t \in Persisted }
    ELSE store

\* cleanup(). A closure within 10 seconds is waited for until its close
\* time; on this clock such a close time has passed, so nothing is awaited
\* and the handler runs in one piece. activeThreads is empty whenever the
\* connection is closed, so no store write of the loop meets a closed one.
Cleanup ==
  /\ timers' = { tm \in timers :
                   tm.id \notin { activeThreads[t] : t \in Cleared } }
  /\ store' = StoreAfterShutdown
  /\ activeThreads' = [t \in Threads |-> NoTimer]
  /\ pendingClosures' = [t \in Threads |-> NoTime]
  /\ dbOpen' = FALSE
  /\ Silent
  /\ UNCHANGED <<now, thread, SQLITE_DQS, sideVars, warnVars, tableExists, intervals,
                 tasks>>

----------------------------------------------------------------------------
Next ==
  \/ \E d \in {AUTO_CLOSE_DELAY, DAY} : Tick(d)
  \/ \E t \in Threads : DeleteThread(t)
  \/ \E t \in Commanded : MemberTagsSolved(t)
  \/ Restart
  \/ Initialize
  \/ \E k \in TasksOf("init") : \E r \in k.rows :
       \E ok \in Outcomes(r.thread_id) : InitRestoreRow(k, r, ok)
  \/ PeriodicCleanup
  \/ \E t \in Commanded, actor \in Actors : HandleSolvedCommand(t, actor)
  \/ \E k \in TasksOf("solved") : \E ok \in Outcomes(k.thread) :
       MarkSetNameReturns(k, ok)
  \/ \E k \in TasksOf("solved") : \E ok \in Outcomes(k.thread) :
       MarkStatusReturns(k, ok)
  \/ \E k \in TasksOf("solved") : \E ok \in Outcomes(k.thread) :
       MarkSetTagsReturns(k, ok)
  \/ \E tm \in timers : TimerFires(tm)
  \/ \E k \in TasksOf("lock") : \E ok \in Outcomes(k.thread) :
       LockFetchReturns(k, ok)
  \/ \E k \in TasksOf("lock") : \E ok \in Outcomes(k.thread) :
       LockSetLockedReturns(k, ok)
  \/ \E k \in TasksOf("lock") : \E ok \in Outcomes(k.thread) :
       LockStatusReturns(k, ok)
  \/ \E t \in Commanded, actor \in Actors : HandleUnsolvedCommand(t, actor)
  \/ \E k \in TasksOf("unsolved") : \E ok \in Outcomes(k.thread) :
       UnsolvedSetNameReturns(k, ok)
  \/ \E k \in TasksOf("unsolved") : \E ok \in Outcomes(k.thread) :
       UnsolvedStatusReturns(k, ok)
  \/ \E k \in TasksOf("unsolved") : \E ok \in Outcomes(k.thread) :
       UnsolvedSetTagsReturns(k, ok)

Spec == Init /\ [][Next]_vars

\* the markAsSolved calls in progress, of /solved and of the auto-solve timer
MarkTasks == TasksOf("solved") \cup TasksOf("grace") \cup TasksOf("button")

\* the forum with members posting: messages, the sweep, warnings and their
\* auto-solve timers, /solved, and the lock timers
NextActivity ==
  \/ \E d \in {AUTO_CLOSE_DELAY, AUTO_SOLVE_DELAY, DAY} : Tick(d)
  \/ \E t \in Commanded : MemberTagsSolved(t)
  \/ \E t \in Commanded, author \in Authors, content \in Contents :
       MessageCreate(t, author, content)
  \/ \E k \in MessageTasks : \E ok \in Outcomes(k.thread) :
       MessageSetTagsReturns(k, ok)
  \/ \E t \in Commanded : SweepTick(t)
  \/ \E k \in TasksOf("sweep") : \E ok \in BOOLEAN :
       SweepFetchActiveReturns(k, ok)
  \/ \E k \in TasksOf("sweep") : \E ok \in Outcomes(k.thread) :
       SweepMessagesReturn(k, ok)
  \/ \E k \in TasksOf("sweep") : \E ok \in Outcomes(k.thread) :
       SweepSendReturns(k, ok)
  \/ \E c \in collectors, actor \in Actors : ButtonPressed(c, actor)
  \/ \E g \in graces : GraceFires(g)
  \/ \E k \in TasksOf("grace") : \E ok \in Outcomes(k.thread) :
       GraceFetchReturns(k, ok)
  \/ \E t \in Commanded, actor \in Actors : HandleSolvedCommand(t, actor)
  \/ \E k \in MarkTasks : \E ok \in Outcomes(k.thread) :
       MarkSetNameReturns(k, ok)
  \/ \E k \in MarkTasks : \E ok \in Outcomes(k.thread) :
       MarkStatusReturns(k, ok)
  \/ \E k \in MarkTasks : \E ok \in Outcomes(k.thread) :
       MarkSetTagsReturns(k, ok)
  \/ \E tm \in timers : TimerFires(tm)
  \/ \E k \in TasksOf("lock") : \E ok \in Outcomes(k.thread) :
       LockFetchReturns(k, ok)
  \/ \E k \in TasksOf("lock") : \E ok \in Outcomes(k.thread) :
       LockSetLockedReturns(k, ok)
  \/ \E k \in TasksOf("lock") : \E ok \in Outcomes(k.thread) :
       LockStatusReturns(k, ok)

\* the process with shutdown signals: /solved, the lock timers, startup,
\* cleanup() and the restart that follows the end of the process
NextShutdown ==
  \/ \E d \in {AUTO_CLOSE_DELAY, DAY} : Tick(d)
  \/ \E t \in Threads : DeleteThread(t)
  \/ Restart
  \/ Initialize
  \/ \E k \in TasksOf("init") : \E r \in k.rows :
       \E ok \in Outcomes(r.thread_id) : InitRestoreRow(k, r, ok)
  \/ \E t \in Commanded, actor \in Actors : HandleSolvedCommand(t, actor)
  \/ \E k \in TasksOf("solved") : \E ok \in Outcomes(k.thread) :
       MarkSetNameReturns(k, ok)
  \/ \E k \in TasksOf("solved") : \E ok \in Outcomes(k.thread) :
       MarkStatusReturns(k, ok)
  \/ \E k \in TasksOf("solved") : \E ok \in Outcomes(k.thread) :
       MarkSetTagsReturns(k, ok)
  \/ \E tm \in timers : TimerFires(tm)
  \/ \E k \in TasksOf("lock") : \E ok \in Outcomes(k.thread) :
       LockFetchReturns(k, ok)
  \/ \E k \in TasksOf("lock") : \E ok \in Outcomes(k.thread) :
       LockSetLockedReturns(k, ok)
  \/ \E k \in TasksOf("lock") : \E ok \in Outcomes(k.thread) :
       LockStatusReturns(k, ok)
  \/ Cleanup

SpecShutdown == Init /\ [][NextShutdown]_vars

\* none of these steps runs the statement that SQLITE_DQS decides
InitActivity == Init /\ SQLITE_DQS

SpecActivity == InitActivity /\ [][NextActivity]_vars

----------------------------------------------------------------------------
(* VirusTotalService.scanFile, and ForumManager.isThankYouMessage on text   *)
(* as a sequence of characters.                                             *)

MB == 1024 * 1024
SIZE_LIMIT_MB == 32

\* a limit test that also rejects a file of exactly the limit
TooLargeInclusive(length) == length >= SIZE_LIMIT_MB * MB

\* fileSizeMB = fileBuffer.length / (1024 * 1024); fileSizeMB > 32. The
\* division by a power of two is exact in a double, so the test is the one
\* on the byte count.
TooLarge(length) == length > SIZE_LIMIT_MB * MB

FileLengths ==
  {0} \cup { SIZE_LIMIT_MB * MB + d : d \in (0 - MaxBytesOff)..MaxBytesOff }

\* scanFile(fileUrl) up to await downloadFile
ScanFile ==
  /\ scan.pc = "idle"
  /\ scan' = [scan EXCEPT !.pc = "download"]
  /\ UNCHANGED <<now, thread, SQLITE_DQS, dbOpen, tableExists, store,
                 activeThreads, pendingClosures, timers, intervals, tasks,
                 warnVars, reply, handlers, text, poll>>

\* downloadFile returns the buffer or throws; the size test; getUploadUrl
\* sends its request
DownloadReturns(ok) ==
  /\ scan.pc = "download"
  /\ scan' = IF ok /\ ~ TooLarge(scan.length)
               THEN [scan EXCEPT !.pc = "uploadUrl", !.urlRequests = @ + 1]
               ELSE [scan EXCEPT !.pc = "thrown"]
  /\ UNCHANGED <<now, thread, SQLITE_DQS, dbOpen, tableExists, store,
                 activeThreads, pendingClosures, timers, intervals, tasks,
                 warnVars, reply, handlers, text, poll>>

\* getUploadUrl returns the URL or throws; the upload is posted
UploadUrlReturns(ok) ==
  /\ scan.pc = "uploadUrl"
  /\ scan' = IF ok THEN [scan EXCEPT !.pc = "upload", !.uploads = @ + 1]
                   ELSE [scan EXCEPT !.pc = "thrown"]
  /\ UNCHANGED <<now, thread, SQLITE_DQS, dbOpen, tableExists, store,
                 activeThreads, pendingClosures, timers, intervals, tasks,
                 warnVars, reply, handlers, text, poll>>

\* the upload returns the analysis id or throws; scanFile rethrows
UploadReturns(ok) ==
  /\ scan.pc = "upload"
  /\ scan' = [scan EXCEPT !.pc = IF ok THEN "done" ELSE "thrown"]
  /\ UNCHANGED <<now, thread, SQLITE_DQS, dbOpen, tableExists, store,
                 activeThreads, pendingClosures, timers, intervals, tasks,
                 warnVars, reply, handlers, text, poll>>

\* characters: ASCII letters in both cases, a letter outside ASCII, a space
\* and a punctuation mark
LowerCase == {"t", "h", "a", "n", "k", "s", "x", "y", "o", "u", "g"}
UpperCase == {"T", "H", "A", "N", "K", "S", "X", "Y"}
Chars     == LowerCase \cup UpperCase \cup {"ö", " ", "!"}

\* the canonical form a case-insensitive pattern compares: ASCII letters
\* fold, other characters stay
Canonicalize(c) ==
  CASE c = "T" -> "t" [] c = "H" -> "h" [] c = "A" -> "a" [] c = "N" -> "n"
    [] c = "K" -> "k" [] c = "S" -> "s" [] c = "X" -> "x" [] c = "Y" -> "y"
    [] OTHER -> c

\* \w of a pattern without the u flag: [A-Za-z0-9_]
IsWordChar(c) == c \in LowerCase \cup UpperCase

\* \s
IsSpace(c) == c = " "

\* \b between position i - 1 and position i of content
WordBoundary(content, i) ==
  LET before == i > 1 /\ IsWordChar(content[i - 1])
      after  == i <= Len(content) /\ IsWordChar(content[i])
  IN before # after

\* the literal w matches content at position i, ignoring case
MatchesAt(content, i, w) ==
  /\ i + Len(w) - 1 <= Len(content)
  /\ \A j \in 1..Len(w) : Canonicalize(content[i + j - 1]) = w[j]

ThankWords ==
  { <<"t","h","a","n","k">>, <<"t","h","a","n","k","s">>, <<"t","h","x">>,
    <<"t","h","a","n","k","y","o","u">>, <<"t","y">> }

\* /\b(?:thank|thanks|thx|thankyou|ty)\b/i
WordPattern(content) ==
  \E i \in 1..Len(content), w \in ThankWords :
    /\ MatchesAt(content, i, w)
    /\ WordBoundary(content, i)
    /\ WordBoundary(content, i + Len(w))

\* /(?:^|\s)ty(?:\s|$)/i and /(?:^|\s)thx(?:\s|$)/i
SpacedPattern(content, w) ==
  \E i \in 1..Len(content) :
    /\ MatchesAt(content, i, w)
    /\ i = 1 \/ IsSpace(content[i - 1])
    /\ i + Len(w) > Len(content) \/ IsSpace(content[i + Len(w)])

\* thankYouPatterns.some(pattern => pattern.test(content))
isThankYouMessage(content) ==
  \/ WordPattern(content)
  \/ SpacedPattern(content, <<"t","y">>)
  \/ SpacedPattern(content, <<"t","h","x">>)

\* the texts tested: a word, in several letter cases, alone or with
\* characters before and after it
Cores ==
  { <<"t","y">>, <<"T","Y">>, <<"T","H","X">>, <<"T","h","x">>,
    <<"t","h","a","n","k">>, <<"T","h","a","n","k","s">>,
    <<"t","h","a","n","k","y","o","u">>, <<"t","h","a","n">>, <<"s","o">> }
PadChars == {" ", "!", "g", "ö"}
Pads == UNION { [1..n -> PadChars] : n \in 0..MaxPad }
Texts == { p \o c \o q : p \in Pads, c \in Cores, q \in Pads }

\* isThankYouMessage(content) is called
TestThankYou ==
  /\ text.result = "untested"
  /\ text' = [text EXCEPT !.result = IF isThankYouMessage(text.content)
                                        THEN "true" ELSE "false"]
  /\ UNCHANGED <<now, thread, SQLITE_DQS, dbOpen, tableExists, store,
                 activeThreads, pendingClosures, timers, intervals, tasks,
                 warnVars, reply, handlers, scan, poll>>

\* a file has been downloaded from the attachment URL and a text is to be
\* tested; the tracker takes no part
InitServices ==
  /\ ManagerInit
  /\ SQLITE_DQS /\ tableExists
  /\ \A t \in Threads : thread[t].parent = FORUM_CHANNEL_ID
  /\ handlers = MaxTasks
  /\ scan \in { [NoScan EXCEPT !.length = n] : n \in FileLengths }
  /\ text \in { [NoText EXCEPT !.content = c] : c \in Texts }
  /\ poll = NoPoll

NextServices ==
  \/ ScanFile
  \/ \E ok \in BOOLEAN : DownloadReturns(ok)
  \/ \E ok \in BOOLEAN : UploadUrlReturns(ok)
  \/ \E ok \in BOOLEAN : UploadReturns(ok)
  \/ TestThankYou

SpecServices == InitServices /\ [][NextServices]_vars

----------------------------------------------------------------------------
(* VirusTotalService.getAnalysisResults: the polling loop, split at the     *)
(* await of the request and the await of the delay. Both definitions of    *)
(* the method in the file run the same loop, one over axios.get and one    *)
(* over fetch.                                                             *)

maxAttempts == 10
delaySeconds == 15

\* responses the analysis may need before one says 'completed'; more than
\* maxAttempts means that no response of a call does
MaxReady == 11

\* a loop that waits after every response that is not 'completed'
WaitsAlways(attempt) == TRUE

\* if (attempt < maxAttempts): the delay is awaited
Waits(attempt) == attempt < maxAttempts

\* attempt++ and the loop test attempt <= maxAttempts: the next request is
\* sent, or the loop is left and 'Analysis timed out' is thrown
NextAttempt(p) ==
  IF p.attempt + 1 <= maxAttempts
    THEN [p EXCEPT !.pc = "request", !.attempt = @ + 1, !.requests = @ + 1]
    ELSE [p EXCEPT !.pc = "thrown", !.attempt = @ + 1,
                   !.error = "Analysis timed out"]

\* result.data.attributes.status of the response to the n-th request
StatusOf(p, n) == IF n > p.readyAfter THEN "completed" ELSE "queued"

\* getAnalysisResults(analysisId) up to the await of the first request
GetAnalysisResults ==
  /\ poll.pc = "idle"
  /\ poll' = NextAttempt(poll)
  /\ UNCHANGED <<now, thread, SQLITE_DQS, dbOpen, tableExists, store,
                 activeThreads, pendingClosures, timers, intervals, tasks,
                 warnVars, reply, handlers, scan, text>>

\* the request returns: a failed request is thrown on, a 'completed' result
\* is returned, otherwise the delay is awaited or the next turn of the loop
\* is taken
AnalysisRequestReturns(ok) ==
  /\ poll.pc = "request"
  /\ poll' =
       IF ~ ok
         THEN [poll EXCEPT !.pc = "thrown", !.failed = @ + 1,
                           !.error = "request failed"]
         ELSE IF StatusOf(poll, poll.requests) = "completed"
           THEN [poll EXCEPT !.pc = "returned"]
           ELSE IF Waits(poll.attempt)
             THEN [poll EXCEPT !.pc = "wait", !.waits = @ + 1,
                               !.waited = @ + delaySeconds * 1000]
             ELSE NextAttempt(poll)
  /\ UNCHANGED <<now, thread, SQLITE_DQS, dbOpen, tableExists, store,
                 activeThreads, pendingClosures, timers, intervals, tasks,
                 warnVars, reply, handlers, scan, text>>

\* the setTimeout of delaySeconds * 1000 ms resolves the awaited promise
AnalysisDelayEnds ==
  /\ poll.pc = "wait"
  /\ poll' = NextAttempt(poll)
  /\ UNCHANGED <<now, thread, SQLITE_DQS, dbOpen, tableExists, store,
                 activeThreads, pendingClosures, timers, intervals, tasks,
                 warnVars, reply, handlers, scan, text>>

\* an analysis id has been obtained; its analysis is completed after
\* readyAfter responses
InitPoll ==
  /\ ManagerInit
  /\ handlers = MaxTasks
  /\ scan = NoScan
  /\ text = NoText
  /\ poll \in { [NoPoll EXCEPT !.readyAfter = n] : n \in 0..MaxReady }

NextPoll ==
  \/ GetAnalysisResults
  \/ \E ok \in BOOLEAN : AnalysisRequestReturns(ok)
  \/ AnalysisDelayEnds

\* every request settles, with a response or an error, and the timer of
\* the delay fires
FairPoll ==
  /\ WF_vars(GetAnalysisResults)
  /\ WF_vars(\E ok \in BOOLEAN : AnalysisRequestReturns(ok))
  /\ WF_vars(AnalysisDelayEnds)

SpecPoll == InitPoll /\ [][NextPoll]_vars /\ FairPoll

\* a command arrives while a handler or a timer callback is suspended: two
\* handlers overlap
InitRace ==
  /\ ManagerInit
  /\ SQLITE_DQS /\ tableExists
  /\ \A t \in Threads : thread[t].parent = FORUM_CHANNEL_ID
  /\ handlers = MaxRaceTasks
  /\ scan = NoScan
  /\ text = NoText
  /\ poll = NoPoll

NextRace ==
  \/ Tick(AUTO_CLOSE_DELAY)
  \/ \E t \in Commanded : MemberTagsSolved(t)
  \/ \E t \in Commanded, actor \in Actors : HandleSolvedCommand(t, actor)
  \/ \E k \in TasksOf("solved") : \E ok \in Outcomes(k.thread) :
       MarkSetNameReturns(k, ok)
  \/ \E k \in TasksOf("solved") : \E ok \in Outcomes(k.thread) :
       MarkStatusReturns(k, ok)
  \/ \E k \in TasksOf("solved") : \E ok \in Outcomes(k.thread) :
       MarkSetTagsReturns(k, ok)
  \/ \E tm \in timers : TimerFires(tm)
  \/ \E k \in TasksOf("lock") : \E ok \in Outcomes(k.thread) :
       LockFetchReturns(k, ok)
  \/ \E k \in TasksOf("lock") : \E ok \in Outcomes(k.thread) :
       LockSetLockedReturns(k, ok)
  \/ \E k \in TasksOf("lock") : \E ok \in Outcomes(k.thread) :
       LockStatusReturns(k, ok)
  \/ \E t \in Commanded, actor \in Actors : HandleUnsolvedCommand(t, actor)
  \/ \E k \in TasksOf("unsolved") : \E ok \in Outcomes(k.thread) :
       UnsolvedSetNameReturns(k, ok)
  \/ \E k \in TasksOf("unsolved") : \E ok \in Outcomes(k.thread) :
       UnsolvedStatusReturns(k, ok)
  \/ \E k \in TasksOf("unsolved") : \E ok \in Outcomes(k.thread) :
       UnsolvedSetTagsReturns(k, ok)

SpecRace == InitRace /\ [][NextRace]_vars

\* an hour passes; while a /solved is at an await, only if the bounded clock
\* can still show the close time it is about to schedule
TickLive ==
  /\ TasksOf("solved") # {} => now + 2 * AUTO_CLOSE_DELAY \in ClockValues
  /\ Tick(AUTO_CLOSE_DELAY)

\* a process that is not shut down, in which the platform calls of the lock
\* callback succeed as long as the thread exists: /solved, /unsolved, the
\* deletion of threads and the lock timers. A timer that expires fires, and
\* an awaited call returns.
NextLive ==
  \/ TickLive
  \/ \E t \in Threads : DeleteThread(t)
  \/ \E t \in Commanded : MemberTagsSolved(t)
  \/ \E t \in Commanded, actor \in Actors :
       /\ now + AUTO_CLOSE_DELAY \in ClockValues
       /\ HandleSolvedCommand(t, actor)
  \/ \E k \in TasksOf("solved") : \E ok \in Outcomes(k.thread) :
       MarkSetNameReturns(k, ok)
  \/ \E k \in TasksOf("solved") : \E ok \in Outcomes(k.thread) :
       MarkStatusReturns(k, ok)
  \/ \E k \in TasksOf("solved") : \E ok \in Outcomes(k.thread) :
       MarkSetTagsReturns(k, ok)
  \/ \E tm \in timers : TimerFires(tm)
  \/ \E k \in TasksOf("lock") : LockFetchReturns(k, thread[k.thread].exists)
  \/ \E k \in TasksOf("lock") :
       LockSetLockedReturns(k, thread[k.thread].exists)
  \/ \E k \in TasksOf("lock") : \E ok \in Outcomes(k.thread) :
       LockStatusReturns(k, ok)
  \/ \E t \in Commanded, actor \in Actors : HandleUnsolvedCommand(t, actor)
  \/ \E k \in TasksOf("unsolved") : \E ok \in Outcomes(k.thread) :
       UnsolvedSetNameReturns(k, ok)
  \/ \E k \in TasksOf("unsolved") : \E ok \in Outcomes(k.thread) :
       UnsolvedStatusReturns(k, ok)
  \/ \E k \in TasksOf("unsolved") : \E ok \in Outcomes(k.thread) :
       UnsolvedSetTagsReturns(k, ok)

\* the clock advances, an expired timer runs its callback, and the awaits of
\* markAsSolved and of the callback return
FairLive ==
  /\ WF_vars(TickLive)
  /\ WF_vars(\E k \in TasksOf("solved") : \E ok \in Outcomes(k.thread) :
               MarkSetNameReturns(k, ok))
  /\ WF_vars(\E k \in TasksOf("solved") : \E ok \in Outcomes(k.thread) :
               MarkStatusReturns(k, ok))
  /\ WF_vars(\E k \in TasksOf("solved") : \E ok \in Outcomes(k.thread) :
               MarkSetTagsReturns(k, ok))
  /\ WF_vars(\E tm \in timers : TimerFires(tm))
  /\ WF_vars(\E k \in TasksOf("lock") :
               LockFetchReturns(k, thread[k.thread].exists))
  /\ WF_vars(\E k \in TasksOf("lock") :
               LockSetLockedReturns(k, thread[k.thread].exists))
  /\ WF_vars(\E k \in TasksOf("lock") : \E ok \in Outcomes(k.thread) :
               LockStatusReturns(k, ok))

SpecLive == InitActivity /\ [][NextLive]_vars /\ FairLive

\* the statements of storeScheduledClose, each of which can throw, and
\* "none" for a call in which none does. On a closed connection BEGIN throws;
\* with the table missing the prepare of the DELETE throws at the latest.
Statements == {"BEGIN", "DELETE", "INSERT", "COMMIT"}

FailPoints ==
  IF ~ dbOpen THEN {"BEGIN"}
  ELSE IF ~ tableExists THEN {"BEGIN", "DELETE"}
  ELSE Statements \cup {"none"}

\* a connection that keeps what each statement wrote
NoRollback(before, written) == written

\* ROLLBACK in the catch: the rows are those of before BEGIN
Rollback(before, written) == before

\* storeScheduledClose(threadId, scheduledTime) with the statement that
\* throws: the rows of the store afterwards
storeScheduledClose(t, scheduledTime, failAt) ==
  LET deleted  == store \ RowsOf(t)
      inserted == deleted \cup
                    { [thread_id |-> t,
                       scheduled_time |-> toISOString(scheduledTime)] }
      written  == CASE failAt \in {"BEGIN", "DELETE"} -> store
                    [] failAt = "INSERT" -> deleted
                    [] OTHER -> inserted
  IN IF failAt = "none" THEN inserted ELSE Rollback(store, written)

\* one call of storeScheduledClose for a close an hour ahead
StoreScheduledClose(t, failAt) ==
  /\ failAt \in FailPoints
  /\ store' = storeScheduledClose(t, now + AUTO_CLOSE_DELAY, failAt)
  /\ Silent
  /\ UNCHANGED <<now, thread, SQLITE_DQS, sideVars, warnVars, tableExists,
                 dbOpen, activeThreads, pendingClosures, timers, intervals,
                 tasks>>

\* the schedule store on its own: writes at different instants, on a new or
\* an old forum.db, on an open or a closed connection
NextStore ==
  \/ \E d \in {AUTO_CLOSE_DELAY, DAY} : Tick(d)
  \/ \E t \in Threads, failAt \in Statements \cup {"none"} :
       StoreScheduledClose(t, failAt)
  \/ Cleanup
  \/ Restart

SpecStore == Init /\ [][NextStore]_vars

\* the threads an earlier process may have left marked solved
Restored == Threads \ Commanded

\* a process that starts on the forum.db of an earlier one, with or without
\* initialize(): members post in a thread the earlier process marked solved,
\* and the sweep visits it
InitRestarted ==
  /\ Init
  /\ SQLITE_DQS /\ tableExists
  /\ \A t \in Threads : thread[t].parent = FORUM_CHANNEL_ID

NextRestarted ==
  \/ \E d \in {AUTO_CLOSE_DELAY, AUTO_SOLVE_DELAY, DAY} : Tick(d)
  \/ Initialize
  \/ \E k \in TasksOf("init") : \E r \in k.rows :
       \E ok \in Outcomes(r.thread_id) : InitRestoreRow(k, r, ok)
  \/ PeriodicCleanup
  \/ \E t \in Restored, author \in Authors, content \in Contents :
       MessageCreate(t, author, content)
  \/ \E k \in MessageTasks : \E ok \in Outcomes(k.thread) :
       MessageSetTagsReturns(k, ok)
  \/ \E t \in Restored : SweepTick(t)
  \/ \E k \in TasksOf("sweep") : \E ok \in BOOLEAN :
       SweepFetchActiveReturns(k, ok)
  \/ \E k \in TasksOf("sweep") : \E ok \in Outcomes(k.thread) :
       SweepMessagesReturn(k, ok)
  \/ \E k \in TasksOf("sweep") : \E ok \in Outcomes(k.thread) :
       SweepSendReturns(k, ok)
  \/ \E g \in graces : GraceFires(g)
  \/ \E k \in TasksOf("grace") : \E ok \in Outcomes(k.thread) :
       GraceFetchReturns(k, ok)
  \/ \E k \in TasksOf("grace") : \E ok \in Outcomes(k.thread) :
       MarkSetNameReturns(k, ok)
  \/ \E k \in TasksOf("grace") : \E ok \in Outcomes(k.thread) :
       MarkStatusReturns(k, ok)
  \/ \E k \in TasksOf("grace") : \E ok \in Outcomes(k.thread) :
       MarkSetTagsReturns(k, ok)
  \/ \E tm \in timers : TimerFires(tm)
  \/ \E k \in TasksOf("lock") : \E ok \in Outcomes(k.thread) :
       LockFetchReturns(k, ok)
  \/ \E k \in TasksOf("lock") : \E ok \in Outcomes(k.thread) :
       LockSetLockedReturns(k, ok)
  \/ \E k \in TasksOf("lock") : \E ok \in Outcomes(k.thread) :
       LockStatusReturns(k, ok)

SpecRestarted == InitRestarted /\ [][NextRestarted]_vars

TypeOK ==
  /\ now \in ClockValues
  /\ SQLITE_DQS \in BOOLEAN
  /\ tableExists \in BOOLEAN
  /\ \A t \in Threads : activeThreads[t] \in 0..MaxTimers
  /\ \A k \in tasks : k.id \in 1..handlers
  /\ dbOpen \in BOOLEAN
  /\ \A t \in Threads : inactivityWarnings[t] \in BOOLEAN
  /\ \A g \in graces : g.thread \in Threads /\ g.due \in Nat
  /\ \A c \in collectors :
       c.thread \in Threads /\ c.until \in Nat /\ c.collected \in 0..MaxPresses
  /\ \A t \in Threads : posts[t].last \in Authors

----------------------------------------------------------------------------
(* The claims of the specification.                                        *)

\* a step in which /unsolved on thread t passed the locked check and reached
\* its first platform call
UnsolveBegins(t) ==
  \E k \in tasks' \ tasks : k.kind = "unsolved" /\ k.thread = t

\* C1: in every reachable state a thread id is a key of activeThreads if and
\* only if it is a key of pendingClosures.
C1_SyncInvariant ==
  \A t \in Threads :
    (activeThreads[t] # NoTimer) <=> (pendingClosures[t] # NoTime)

\* C2: when /unsolved runs on an unlocked thread that a completed /solved
\* marked (pendingClosures has it), the store has no row for the thread
\* afterwards and no lock timer stays armed for it, so that no lock can
\* happen when the clock passes the original close time.
C2_SolvedThenUnsolved ==
  [][\A t \in Threads :
       (pendingClosures[t] # NoTime /\ UnsolveBegins(t))
         => /\ RowsOf(t)' = {}
            /\ \A tm \in timers' : tm.thread # t]_vars

\* C3: /solved on a thread whose earlier mark-solved ran to its end
\* (pendingClosures has the thread, its timer is armed) only sends the private
\* 'already marked as solved' reply: no timer is armed, pendingClosures is
\* unchanged, and the store holds exactly one row for the thread, with the
\* original close time.
C3_SolvedTwice ==
  [][\A t \in Threads, actor \in Actors :
       (/\ pendingClosures[t] # NoTime
        /\ activeThreads[t] # NoTimer
        /\ HandleSolvedCommand(t, actor))
         => /\ reply' = [thread |-> t, kind |-> "already", ephemeral |-> TRUE]
            /\ UNCHANGED <<timers, activeThreads, pendingClosures, tasks>>
            /\ Cardinality(RowsOf(t)') = 1
            /\ \A r \in RowsOf(t)' :
                 DateParse(r.scheduled_time) = pendingClosures[t]]_vars

\* C4: when markAsSolved reaches its end without an error, the thread's applied
\* tags contain the solved tag and do not contain the waiting-for-reply tag.
C4_SolvedTags ==
  [][\A k \in TasksOf("solved") :
       StoreAndSchedule(k)
         => /\ SOLVED_TAG_ID \in thread'[k.thread].tags
            /\ WAITING_REPLY_TAG_ID \notin thread'[k.thread].tags]_vars

\* C5: when a mark-solved transition completes, the store holds one row for the
\* thread, activeThreads holds an armed timer for it and pendingClosures an
\* entry, and the row's scheduled_time, the timer's due time and the
\* pendingClosures value are all the solve time plus one hour.
C5_OneCloseScheduled ==
  [][\A k \in TasksOf("solved") :
       StoreAndSchedule(k)
         => LET t == k.thread
                scheduledTime == now + AUTO_CLOSE_DELAY IN
            /\ Cardinality(RowsOf(t)') = 1
            /\ \A r \in RowsOf(t)' : DateParse(r.scheduled_time) = scheduledTime
            /\ \E tm \in timers' :
                 /\ tm.id = activeThreads'[t]
                 /\ tm.thread = t
                 /\ tm.due = scheduledTime
            /\ pendingClosures'[t] = scheduledTime]_vars

\* C6: when the scheduled-lock timer's callback has locked the thread and
\* completes, the store contains no row for that thread.
C6_RowRemovedAtLock ==
  [][\A k \in TasksOf("lock") :
       (\E ok \in BOOLEAN : LockStatusReturns(k, ok))
         => RowsOf(k.thread)' = {}]_vars

\* C7: when the first initialize() of a process in which no thread is pending
\* closure completes (on a build whose SQL statements prepare), every store row of an existing, unlocked thread
\* whose scheduled_time is still in the future has a timer armed for that
\* thread that is due at scheduled_time, not before. A completion in which
\* channels.fetch threw although every thread still to restore exists (a
\* fault of the platform) is left out.
C7_RestartRecovery ==
  [][(/\ SQLITE_DQS
      /\ intervals = 0
      /\ intervals' = 1
      /\ \A t \in Threads : pendingClosures[t] = NoTime
      /\ ~ \E k \in TasksOf("init") :
             /\ \A r \in k.rows : thread[r.thread_id].exists
             /\ \E r \in k.rows : InitRestoreRow(k, r, FALSE))
       => \A r \in store' :
            (/\ thread'[r.thread_id].exists
             /\ ~ thread'[r.thread_id].locked
             /\ DateParse(r.scheduled_time) > now)
              => \E tm \in timers' :
                   /\ tm.thread = r.thread_id
                   /\ tm.due = DateParse(r.scheduled_time)]_vars

\* C8: when initialize() completes having re-armed the timer of a store row,
\* pendingClosures maps the row's thread to the row's scheduled_time.
C8_PendingRebuilt ==
  [][\A k \in TasksOf("init") : \A r \in k.rows :
       (/\ InitRestoreRow(k, r, TRUE)
        /\ k.rows = {r}
        /\ timers' # timers)
         => pendingClosures'[r.thread_id] = DateParse(r.scheduled_time)]_vars

\* C9: a store row whose scheduled_time is more than one day in the past when
\* initialize() runs (on a build whose SQL statements prepare) is deleted by
\* cleanupDatabase, and restoreScheduledCloses does not select it.
C9_StartupCleanup ==
  [][(SQLITE_DQS /\ Initialize)
       => \A r \in store :
            DateParse(r.scheduled_time) + DAY < now
              => /\ r \notin store'
                 /\ \A k \in tasks' \ tasks : r \notin k.rows]_vars

\* C10: a second initialize() on the same tracker arms no additional lock
\* timer for a thread that has one armed: the thread still has exactly one.
C10_InitializeIdempotent ==
  [][\A k \in TasksOf("init") : \A r \in k.rows :
       (/\ intervals >= 1
        /\ \E tm \in timers : tm.thread = r.thread_id
        /\ \E ok \in BOOLEAN : InitRestoreRow(k, r, ok))
         => Cardinality({ tm \in timers' : tm.thread = r.thread_id }) = 1]_vars

\* what a command that is refused leaves as it was: the platform's thread, the
\* store, the timers, the maps and the handlers in flight
RefusedFrame ==
  UNCHANGED <<thread, tableExists, dbOpen, store, timers, activeThreads,
              pendingClosures, intervals, tasks, warnVars>>

\* C11 as stated: /solved in a thread of the forum by an actor who is neither the owner nor a moderator
\* is answered with the private rejection and changes nothing.
C11_UnauthorizedRejected ==
  [][\A t \in Threads, actor \in Actors :
       (/\ thread[t].parent = FORUM_CHANNEL_ID
        /\ actor \notin {"owner", "moderator"}
        /\ HandleSolvedCommand(t, actor))
         => /\ reply' = [thread |-> t, kind |-> "rejected", ephemeral |-> TRUE]
            /\ RefusedFrame]_vars

\* C11 amended: /solved in a thread of the forum by an actor who is neither the owner nor a moderator
\* changes nothing and is answered privately: with the rejection when the
\* thread is not pending closure, with the 'already marked as solved' notice
\* when it is (the pending check comes first).
C11_UnauthorizedPrivate ==
  [][\A t \in Threads, actor \in Actors :
       (/\ thread[t].parent = FORUM_CHANNEL_ID
        /\ actor \notin {"owner", "moderator"}
        /\ HandleSolvedCommand(t, actor))
         => /\ reply' = [thread |-> t,
                         kind |-> IF pendingClosures[t] # NoTime
                                    THEN "already" ELSE "rejected",
                         ephemeral |-> TRUE]
            /\ RefusedFrame]_vars

\* C11 witness: the rejection was sent in a thread that is not pending closure
C11_Witness ==
  /\ reply.kind = "rejected"
  /\ reply.ephemeral
  /\ \E t \in Threads : reply.thread = t /\ pendingClosures[t] = NoTime

\* C12: /unsolved on an unlocked thread by an actor who is neither the owner
\* nor a moderator is rejected privately; the lock timer, the row,
\* pendingClosures, the thread's name and tags are unchanged.
C12_UnauthorizedUnsolved ==
  [][\A t \in Threads, actor \in Actors :
       (/\ actor \notin {"owner", "moderator"}
        /\ ~ thread[t].locked
        /\ HandleUnsolvedCommand(t, actor))
         => /\ reply' = [thread |-> t, kind |-> "rejected", ephemeral |-> TRUE]
            /\ RefusedFrame]_vars

\* C13: /unsolved on a locked thread only sends a private informational
\* reply: the thread stays locked, its name and tags, the store, activeThreads
\* and pendingClosures are unchanged.
C13_UnsolvedOnLocked ==
  [][\A t \in Threads, actor \in Actors :
       (thread[t].locked /\ HandleUnsolvedCommand(t, actor))
         => /\ reply' = [thread |-> t, kind |-> "closed", ephemeral |-> TRUE]
            /\ thread'[t].locked
            /\ RefusedFrame]_vars

\* C13 witness: the informational reply was sent in a locked thread
C13_Witness ==
  /\ reply.kind = "closed"
  /\ \E t \in Threads : reply.thread = t /\ thread[t].locked

\* C14: /solved or /unsolved in a thread whose parent is not the configured
\* forum replies privately and changes no thread state, no store row and no
\* in-memory map.
C14_ForumScope ==
  [][\A t \in Threads, actor \in Actors :
       (/\ thread[t].parent # FORUM_CHANNEL_ID
        /\ \/ HandleSolvedCommand(t, actor)
           \/ HandleUnsolvedCommand(t, actor))
         => /\ reply'.thread = t
            /\ reply'.ephemeral
            /\ RefusedFrame]_vars

\* C17: when the schedule write of a mark-solved transition fails (the
\* scheduled_closes table is missing, so storeScheduledClose rolls back), the
\* transition leaves neither an activeThreads entry nor a pendingClosures
\* entry for the thread, which has no row in the store.
C17_FailedWriteNoDangling ==
  [][\A k \in TasksOf("solved") :
       (~ tableExists /\ StoreAndSchedule(k))
         => (RowsOf(k.thread)' = {}
               => /\ activeThreads'[k.thread] = NoTimer
                  /\ pendingClosures'[k.thread] = NoTime)]_vars

\* C18: when a platform call of the Solved transition (rename, status edit,
\* tag update) fails while /solved is handled, the caller does not get the
\* public 'Post Marked as Solved' confirmation and pendingClosures gets no
\* entry for the thread.
C18_SolvedFailureSurfaced ==
  [][\A k \in TasksOf("solved") :
       (\/ MarkSetNameReturns(k, FALSE)
        \/ MarkStatusReturns(k, FALSE)
        \/ MarkSetTagsReturns(k, FALSE))
         => /\ reply'.kind # "confirmed"
            /\ pendingClosures'[k.thread] = NoTime]_vars

\* C15: when the owner has posted after the inactivity warning and before
\* its 12 hours have passed, and the listener has handled that message, the
\* auto-solve callback does not start the Solved transition: it ends
\* without calling markAsSolved.
C15_OwnerMessageCancelsGrace ==
  [][\A k \in TasksOf("grace") :
       (/\ posts[k.thread].warning # NoTime
        /\ posts[k.thread].owner >= posts[k.thread].warning
        /\ posts[k.thread].owner < posts[k.thread].warning + AUTO_SOLVE_DELAY
        /\ ~ inactivityWarnings[k.thread]
        /\ GraceFetchReturns(k, TRUE))
         => tasks' = tasks \ {k}]_vars

C19_NoUncaughtError == reply.kind # "unhandledRejection"

\* C20: when cleanup() has run, every lock timer that had more than 10
\* seconds left is cancelled, the store holds a row for its thread whose
\* scheduled_time is the close time the timer was armed for, and
\* activeThreads and pendingClosures are empty.
C20_ShutdownPersists ==
  [][Cleanup =>
       /\ \A tm \in timers :
            tm.due - now > 10000
              => /\ tm \notin timers'
                 /\ \E r \in RowsOf(tm.thread)' :
                      DateParse(r.scheduled_time) = tm.due
       /\ \A t \in Threads : activeThreads'[t] = NoTimer
       /\ \A t \in Threads : pendingClosures'[t] = NoTime]_vars

\* C30: when a scheduled-lock timer callback ends for a thread, whether it
\* found the thread deleted, locked it, or a platform call of it (lock,
\* fetch messages, edit, send) failed, the thread id is in neither
\* activeThreads nor pendingClosures.
C30_LockCallbackCleansUp ==
  [][\A k \in TasksOf("lock") :
       (\/ LockFetchReturns(k, FALSE)
        \/ LockSetLockedReturns(k, FALSE)
        \/ LockStatusReturns(k, TRUE)
        \/ LockStatusReturns(k, FALSE))
         => /\ activeThreads'[k.thread] = NoTimer
            /\ pendingClosures'[k.thread] = NoTime]_vars

\* a callback has locked a thread that /solved had made pending, and ended
C30_Witness ==
  \E t \in Commanded :
    /\ thread[t].locked
    /\ thread[t].name = "[solved]"
    /\ TasksOf("lock") = {}
    /\ activeThreads[t] = NoTimer
    /\ pendingClosures[t] = NoTime

\* C22: isThankYouMessage returns true for a text that contains thank,
\* thanks, thx, thankyou or ty as a whole word in any letter case, and false
\* for a text in which those letters occur only inside longer words. A word
\* of a text is a maximal run of letters.
C22_ThankYouDetection ==
  LET content == text.content
      IsLetter(c) == c \in LowerCase \cup UpperCase \cup {"ö"}
      WordsOf ==
        { ij \in (1..Len(content)) \X (1..Len(content)) :
            /\ ij[1] <= ij[2]
            /\ \A n \in ij[1]..ij[2] : IsLetter(content[n])
            /\ ij[1] = 1 \/ ~ IsLetter(content[ij[1] - 1])
            /\ ij[2] = Len(content) \/ ~ IsLetter(content[ij[2] + 1]) }
      HasThankWord ==
        \E ij \in WordsOf, w \in ThankWords :
          /\ Len(w) = ij[2] - ij[1] + 1
          /\ MatchesAt(content, ij[1], w)
  IN text.result # "untested" => (text.result = "true" <=> HasThankWord)

C24_OneLiveTimer ==
  \A t \in Threads :
    /\ Cardinality({ tm \in timers : tm.thread = t }) <= 1
    /\ \A tm \in timers : tm.thread = t => activeThreads[t] = tm.id

\* C25: however /unsolved and a scheduled-lock timer callback of the same
\* thread interleave, when /unsolved has sent its reversal confirmation the
\* thread is not locked by the callback.
C25_UnsolvedNotLocked ==
  \A t \in Threads :
    (reply.thread = t /\ reply.kind = "unsolved") => ~ thread[t].locked

\* C26: the auto-solve timer of a warning starts the Solved transition only
\* for a thread that is unlocked and not already marked solved: when the
\* thread was marked solved during the grace period (a closure is pending),
\* the callback does not go on to markAsSolved.
C26_GraceOnlyUnsolved ==
  [][\A k \in TasksOf("grace") :
       (k.pc = "fetch" /\ \E k2 \in tasks' : k2.id = k.id /\ k2.pc = "setName")
         => /\ ~ thread[k.thread].locked
            /\ pendingClosures[k.thread] = NoTime]_vars

\* C27: the button of a warning is single-use: over the lifetime of one
\* warning, at most one activation of its button gets through to the Solved
\* transition.
C27_ButtonSingleUse ==
  \A c \in collectors : c.collected <= 1

\* C28: the sweep goes on to read a thread's messages only if the thread is
\* unlocked, has no inactivity warning outstanding, is not tagged solved and
\* has no pending closure; it goes on to send the warning only if the last
\* message that is not a bot's is not the owner's and the owner's last message
\* is at least 24 hours old; and a warning is sent, and inactivity_warnings
\* set, only by a sweep that passed both tests. A flag that is set is thus
\* never set again.
C28_SweepGuard ==
  [][/\ \A k \in TasksOf("sweep") : \A k2 \in tasks' :
          (k2.id = k.id /\ k.pc = "fetchActive" /\ k2.pc = "messages")
            => /\ ~ thread[k.thread].locked
               /\ SOLVED_TAG_ID \notin thread[k.thread].tags
               /\ ~ inactivityWarnings[k.thread]
               /\ pendingClosures[k.thread] = NoTime
     /\ \A k \in TasksOf("sweep") : \A k2 \in tasks' :
          (k2.id = k.id /\ k.pc = "messages" /\ k2.pc = "send")
            => /\ posts[k.thread].last # "owner"
               /\ now - posts[k.thread].owner >= INACTIVITY_CHECK_DELAY
     /\ \A k2 \in tasks' : (k2.kind = "sweep" /\ k2.pc = "send")
          => \E k \in TasksOf("sweep") :
               k.id = k2.id /\ k.pc \in {"messages", "send"}
     /\ \A t \in Threads :
          \/ inactivityWarnings'[t] /\ ~ inactivityWarnings[t]
          \/ reply'.kind = "warning" /\ reply'.thread = t
          \/ posts'[t].warning # posts[t].warning /\ posts'[t].warning # NoTime
          => /\ \E k \in TasksOf("sweep") :
                  k.thread = t /\ k.pc = "send" /\ k \notin tasks'
             /\ inactivityWarnings'[t]
             /\ reply'.kind = "warning" /\ reply'.thread = t]_vars

\* a warning has just been sent for a thread and its flag set
C28_Witness ==
  \E t \in Threads :
    /\ reply.kind = "warning" /\ reply.thread = t
    /\ inactivityWarnings[t]
    /\ posts[t].warning = now

\* C29: the sweep never sends an inactivity warning for a thread that has an
\* armed lock timer or a row in the store at that moment.
C29_WarnedOnlyFromOpen ==
  [][\A k \in TasksOf("sweep") :
       SweepSendReturns(k, TRUE)
         => /\ \A tm \in timers : tm.thread # k.thread
            /\ RowsOf(k.thread) = {}]_vars

\* C21: cleanup() cancels no lock timer that is due within 10 seconds, and
\* the lock of such a timer is carried out before cleanup() closes the store:
\* no thread is locked by a timer callback on a closed store.
C21_ImminentNotAborted ==
  [][/\ Cleanup => \A tm \in timers :
                     tm.due - now <= 10000 => tm \in timers'
     /\ \A k \in TasksOf("lock") :
          LockSetLockedReturns(k, TRUE) => dbOpen]_vars

\* C31: when /unsolved has completed its reversal and sent its confirmation,
\* pending_closures, active_timers and the store hold nothing for the thread,
\* whatever preceded it.
C31_UnsolveClearsBookkeeping ==
  \A t \in Threads :
    (reply.thread = t /\ reply.kind = "unsolved")
      => /\ pendingClosures[t] = NoTime
         /\ activeThreads[t] = NoTimer
         /\ RowsOf(t) = {}

C33_LocksOnlyOnSchedule ==
  [][\A t \in Threads :
       thread'[t].locked # thread[t].locked
         => /\ thread'[t].locked
            /\ \E k \in TasksOf("lock") : k.thread = t /\ k.pc = "setLocked"
            /\ \A r \in RowsOf(t) : DateParse(r.scheduled_time) <= now]_vars

\* C34: a call of storeScheduledClose in which no statement fails leaves
\* exactly one row for the thread, carrying the new scheduled_time; a call in
\* which a statement fails leaves the store as it was; the rows of other
\* threads are the same afterwards in both cases.
C34_ScheduleWriteAtomic ==
  [][\A t \in Threads, failAt \in Statements \cup {"none"} :
       StoreScheduledClose(t, failAt)
         => /\ IF failAt = "none"
                 THEN { r \in store' : r.thread_id = t } =
                        { [thread_id |-> t,
                           scheduled_time |->
                             toISOString(now + AUTO_CLOSE_DELAY)] }
                 ELSE store' = store
            /\ { r \in store' : r.thread_id # t } =
                 { r \in store : r.thread_id # t }]_vars

\* a write replaced the row an earlier write had stored for the thread
C34_Witness ==
  \E t \in Commanded :
    /\ now > StartTime
    /\ RowsOf(t) = { [thread_id |-> t,
                      scheduled_time |-> toISOString(now + AUTO_CLOSE_DELAY)] }
    /\ \E u \in Threads \ {t} : RowsOf(u) # {}

\* C35: initialize() has completed in this process, and the schedule table
\* exists, before a mark-solved transition writes its schedule to the store
\* and before /unsolved deletes from it.
C35_InitializedBeforeStoreAccess ==
  [][\A t \in Threads :
       \/ /\ \E k \in TasksOf("solved") : k.thread = t /\ k \notin tasks'
          /\ activeThreads'[t] # activeThreads[t]
          /\ activeThreads'[t] # NoTimer
       \/ /\ ~ thread[t].locked
          /\ \E actor \in Actors : HandleUnsolvedCommand(t, actor)
       => intervals > 0 /\ tableExists]_vars

\* C36: a row that is overdue by no more than one day when initialize() runs
\* is dropped: initialize() and the restore of the row arm no timer, set no
\* activeThreads entry, leave the thread as it is (unlocked stays unlocked),
\* and do not take the row out of the store.
C36_OverdueDropped ==
  [][LET Overdue(r) == /\ DateParse(r.scheduled_time) <= now
                       /\ now - DateParse(r.scheduled_time) <= DAY
         Untouched(t) == /\ { tm \in timers' : tm.thread = t } =
                              { tm \in timers : tm.thread = t }
                         /\ activeThreads'[t] = activeThreads[t]
                         /\ thread'[t] = thread[t]
     IN /\ Initialize =>
             \A r \in store : Overdue(r) => r \in store' /\ Untouched(r.thread_id)
        /\ \A k \in TasksOf("init") : \A r \in k.rows : \A ok \in BOOLEAN :
             InitRestoreRow(k, r, ok) /\ Overdue(r) =>
               store' = store /\ Untouched(r.thread_id)]_vars

\* initialize() selected an overdue row of an unlocked thread, fetched the
\* thread and finished: the row is in the store and the thread has no timer
C36_Witness ==
  /\ SQLITE_DQS
  /\ intervals = 1
  /\ tasks = {}
  /\ timers = {}
  /\ \E r \in store :
       /\ DateParse(r.scheduled_time) < now
       /\ TextLess(SqlDatetime(now), r.scheduled_time)
       /\ thread[r.thread_id].exists
       /\ ~ thread[r.thread_id].locked
       /\ activeThreads[r.thread_id] = NoTimer

\* C37: when the MessageCreate listener has handled a message of the thread
\* owner in a thread of the forum, inactivityWarnings has no entry for the
\* thread; handling a message of another author leaves inactivityWarnings
\* as it was.
C37_OwnerMessageClearsWarning ==
  [][/\ \A t \in Threads : \A author \in Authors : \A content \in Contents :
          /\ MessageCreate(t, author, content)
          /\ thread[t].parent = FORUM_CHANNEL_ID
          /\ tasks' = tasks
          => IF author = "owner"
               THEN ~ inactivityWarnings'[t]
               ELSE inactivityWarnings' = inactivityWarnings
     /\ \A k \in MessageTasks : \A ok \in BOOLEAN :
          MessageSetTagsReturns(k, ok)
          => IF k.kind = "ownerMessage"
               THEN ~ inactivityWarnings'[k.thread]
               ELSE inactivityWarnings' = inactivityWarnings]_vars

============================================================================
